---- MODULE Spec2Model ----
(***************************************************************************)
(* Model of src/app.py: the Streamlit script run_app().  One rendering     *)
(* cycle is one execution of the script; the session (st.session_state)    *)
(* and the st.cache_data stores survive from one cycle to the next.        *)
(***************************************************************************)
EXTENDS Integers, Sequences, FiniteSets, TLC

VARIABLES
    now,            \* time.time(), in seconds
    pc,             \* position of the script
    tickers_input,  \* sidebar text input (a sequence of characters)
    finnhub_api,    \* sidebar text input: the news API key
    refresh_rate,   \* sidebar slider
    in_session,     \* "last_refresh" in st.session_state
    last_refresh,   \* st.session_state["last_refresh"]
    cache,          \* the st.cache_data stores: key -> [value, at]
    mpl_imported,   \* matplotlib and mplcyberpunk are in sys.modules
    tickers,        \* the list built at line 142
    i,              \* index of the ticker the loop is at (1-based)
    info,           \* local of the loop body
    hist,           \* local of the loop body
    section,        \* what the loop body has emitted for the ticker it is at
    done,           \* the tickers the loop is through with, and how each ended
    runs,           \* user interactions of the session so far
    calls,          \* external calls made in this cycle, per provider
    primary,        \* what the primary chart strategy did for the ticker
    last,           \* the cached call the last step made, if it made one
    rerun_cause,    \* why the script was last asked to run again
    due_at,         \* when the refresh check last asked for a reload (-1: never)
    unavailable_seen \* a chart call of this cycle found the toolkit unavailable

vars == <<now, pc, tickers_input, finnhub_api, refresh_rate, in_session,
          last_refresh, cache, mpl_imported, tickers, i, info, hist, section,
          done, runs, calls, primary, last, rerun_cause, due_at, unavailable_seen>>

----------------------------------------------------------------------------
(* Python strings as sequences of one-character strings.                   *)

Upper(c) == CASE c = "a" -> "A" [] c = "t" -> "T" [] OTHER -> c

RECURSIVE LStrip(_)
LStrip(s) == IF s # <<>> /\ Head(s) = " " THEN LStrip(Tail(s)) ELSE s

RECURSIVE RStrip(_)
RStrip(s) ==
    IF s # <<>> /\ s[Len(s)] = " " THEN RStrip(SubSeq(s, 1, Len(s) - 1)) ELSE s

\* str.strip()
Strip(s) == RStrip(LStrip(s))

\* str.upper()
UpperStr(s) == [k \in 1..Len(s) |-> Upper(s[k])]

\* str.split(","): always at least one piece
RECURSIVE Split(_)
Split(s) ==
    IF \A k \in 1..Len(s) : s[k] # ","
    THEN <<s>>
    ELSE LET p == CHOOSE k \in 1..Len(s) :
                      s[k] = "," /\ \A j \in 1..(k - 1) : s[j] # ","
         IN  <<SubSeq(s, 1, p - 1)>> \o Split(SubSeq(s, p + 1, Len(s)))

\* [t.strip().upper() for t in pieces if t.strip()]
RECURSIVE StripUpperNonEmpty(_)
StripUpperNonEmpty(pieces) ==
    IF pieces = <<>> THEN <<>>
    ELSE IF Strip(Head(pieces)) # <<>>
         THEN <<UpperStr(Strip(Head(pieces)))>> \o StripUpperNonEmpty(Tail(pieces))
         ELSE StripUpperNonEmpty(Tail(pieces))

RECURSIVE Dedup(_)
Dedup(list) ==
    IF list = <<>> THEN <<>>
    ELSE <<Head(list)>> \o Dedup(SelectSeq(Tail(list), LAMBDA t : t # Head(list)))

\* a variant that drops repeated symbols
ParseTickersDedup(input) == Dedup(StripUpperNonEmpty(Split(input)))

\* line 142
ParseTickers(input) == StripUpperNonEmpty(Split(input))

----------------------------------------------------------------------------
(* Python values: a field of a provider payload is absent, None, a number  *)
(* or a string.                                                            *)

Absent == [t |-> "absent", n |-> 0, s |-> ""]
NoneV  == [t |-> "none",   n |-> 0, s |-> ""]
Num(x) == [t |-> "num",    n |-> x, s |-> ""]
Str(x) == [t |-> "str",    n |-> 0, s |-> x]

\* bool(v)
Truthy(v) ==
    CASE v.t = "num" -> v.n # 0
      [] v.t = "str" -> v.s # ""
      [] OTHER       -> FALSE

\* a or b
Or(a, b) == IF Truthy(a) THEN a ELSE b

\* d.get(key, default) on a mapping
Get(d, key, default) == IF d[key].t = "absent" THEN default ELSE d[key]

InfoFields ==
    {"shortName", "logo_url", "website", "currentPrice", "regularMarketPrice",
     "marketCap", "fiftyTwoWeekHigh", "fiftyTwoWeekLow", "longBusinessSummary"}

\* {} (line 166)
EmptyDict == [isdict |-> TRUE, f |-> [k \in InfoFields |-> Absent]]

\* pd.DataFrame() (line 159); a frame is modelled by its Close column
EmptyFrame == <<>>

\* what yf.Ticker(t).get_info() may hand back when it does not raise
InfoFull ==
    [isdict |-> TRUE,
     f |-> [k \in InfoFields |->
              CASE k = "shortName"           -> Str("Acme")
                [] k = "logo_url"            -> Absent
                [] k = "website"             -> Str("https://acme.example")
                [] k = "currentPrice"        -> Num(150)
                [] k = "regularMarketPrice"  -> Num(149)
                [] k = "marketCap"           -> Num(1000)
                [] k = "fiftyTwoWeekHigh"    -> Num(200)
                [] k = "fiftyTwoWeekLow"     -> Num(100)
                [] k = "longBusinessSummary" -> Str("Makes things.")]]

\* a payload with a non-numeric price
InfoBadPrice == [InfoFull EXCEPT !.f["currentPrice"] = Str("n/a")]

\* a payload without a current price, a market cap and a 52-week high
InfoSparse ==
    [InfoFull EXCEPT !.f["currentPrice"] = Absent, !.f["marketCap"] = Absent,
                     !.f["fiftyTwoWeekHigh"] = Absent]

\* a payload whose current price is zero
InfoZeroPrice == [InfoFull EXCEPT !.f["currentPrice"] = Num(0)]

\* a payload that is no mapping at all
InfoNotDict == [isdict |-> FALSE, f |-> [k \in InfoFields |-> Absent]]

\* Upper-case symbols: "A" is a company the providers answer for in full;
\* for any other symbol they answer with payloads that are incomplete or bad.
Listed(symbol) == symbol = <<"A">>

\* what yf.Ticker(t).get_info() may hand back for a symbol
InfoSamples(symbol) ==
    IF Listed(symbol) THEN {InfoFull}
    ELSE {InfoBadPrice, InfoNotDict, InfoSparse, InfoZeroPrice}

\* what yf.Ticker(t).history(p) may hand back for a symbol: its closes
HistSamples(symbol, p) ==
    IF Listed(symbol) THEN (IF p = "5d" THEN {<<90, 100, 105>>} ELSE {<<100, 105>>})
    ELSE IF p = "5d" THEN {<<100>>} ELSE {<<100, 105>>}

\* news items as the provider sends them; n is the datetime (unix seconds,
\* as the provider documents it) and tells the items apart
Item(h, u, n) == [headline |-> h, url |-> u, n |-> n]

BodyMixed ==
    <<Item(Str("A"), Str("https://x/1"), 1),
      Item(Str(""), Str("https://x/2"), 2),
      Item(Str("C"), Absent, 3),
      Item(Absent, Str("https://x/4"), 4),
      Item(Str("E"), NoneV, 5),
      Item(Str("F"), Str("https://x/6"), 6)>>

BodyMany == [k \in 1..7 |-> IF k = 3 THEN Item(Str("H"), Str(""), k)
                                     ELSE Item(Str("H"), Str("https://x"), k)]

\* requests.get(...) outcomes: raised, or a response whose json() is a list
\* of items or raises
NewsResponses(symbol) ==
    {[raised |-> TRUE,  status |-> 0,   json_ok |-> FALSE, data |-> <<>>],
     [raised |-> FALSE, status |-> 500, json_ok |-> TRUE,  data |-> BodyMixed],
     [raised |-> FALSE, status |-> 200, json_ok |-> FALSE, data |-> <<>>],
     [raised |-> FALSE, status |-> 200, json_ok |-> TRUE,
      data |-> IF Listed(symbol) THEN BodyMany ELSE BodyMixed]}

----------------------------------------------------------------------------
(* The cached helpers, lines 154-183.  A body's result is the value it      *)
(* returns, the external calls it made, what became of the call ("ok",     *)
(* "raised", "status" for a status other than 200, "json" for a body that  *)
(* is no list of items, "none" without a call) and the data received.      *)

Res(val, ext, client, data) ==
    [val |-> val, ext |-> ext, client |-> client, data |-> data]

TTL_HISTORY == 3600
TTL_INFO == 3600
TTL_NEWS == 1800

\* lines 156-159: the provider's frame, or an empty frame when it raises
get_stock_data_body(symbol, p) ==
    {Res(h, 1, "ok", <<>>) : h \in HistSamples(symbol, p)}
        \cup {Res(EmptyFrame, 1, "raised", <<>>)}

\* a variant that hands back a broken payload when the provider raises
get_info_cached_body_Leaky(symbol) ==
    {Res(d, 1, "ok", <<>>) : d \in InfoSamples(symbol)}
        \cup {Res(InfoNotDict, 1, "raised", <<>>)}

\* lines 163-166
get_info_cached_body(symbol) ==
    {Res(d, 1, "ok", <<>>) : d \in InfoSamples(symbol)}
        \cup {Res(EmptyDict, 1, "raised", <<>>)}

\* a variant that looks at the headline only
ItemKeptHeadlineOnly(item) == Truthy(item.headline)

\* line 180
ItemKept(item) == Truthy(item.headline) /\ Truthy(item.url)

RECURSIVE FilterItems(_)
FilterItems(data) ==
    IF data = <<>> THEN <<>>
    ELSE IF ItemKept(Head(data))
         THEN <<Head(data)>> \o FilterItems(Tail(data))
         ELSE FilterItems(Tail(data))

\* lines 176-183, for one outcome of requests.get
NewsResult(r) ==
    IF ~r.raised /\ r.status = 200 /\ r.json_ok THEN FilterItems(r.data) ELSE <<>>

\* what became of the call
NewsClient(r) ==
    IF r.raised THEN "raised"
    ELSE IF r.status # 200 THEN "status"
    ELSE IF ~r.json_ok THEN "json" ELSE "ok"

\* lines 170-183
get_company_news_body(symbol, api_key) ==
    IF api_key = ""
    THEN {Res(<<>>, 0, "none", <<>>)}
    ELSE {Res(NewsResult(r), 1, NewsClient(r), r.data) : r \in NewsResponses(symbol)}

\* st.cache_data(ttl): an entry younger than ttl is served, an entry older
\* than ttl is dropped; at an age of exactly ttl either may happen.
Servable(store, key, ttl) == key \in DOMAIN store /\ now - store[key].at <= ttl
Stale(store, key, ttl) == key \notin DOMAIN store \/ now - store[key].at >= ttl

\* a variant that keeps no empty result
PutUnlessEmpty(store, key, val) ==
    IF (IF key[1] = "get_info_cached" THEN val = EmptyDict ELSE val = <<>>)
    THEN store
    ELSE [k \in DOMAIN store \cup {key} |->
            IF k = key THEN [val |-> val, at |-> now] ELSE store[k]]

Put(store, key, val) ==
    [k \in DOMAIN store \cup {key} |->
        IF k = key THEN [val |-> val, at |-> now] ELSE store[k]]

\* what a step records of the cached call it made
Look(fn, key, store, served, b) ==
    [fn |-> fn, key |-> key,
     had |-> key \in DOMAIN store,
     age |-> IF key \in DOMAIN store THEN now - store[key].at ELSE 0,
     served |-> served, ext |-> b.ext, client |-> b.client, data |-> b.data]

NoLookup ==
    [fn |-> "", key |-> <<>>, had |-> FALSE, age |-> 0, served |-> FALSE,
     ext |-> 0, client |-> "none", data |-> <<>>]

\* A call of a cached function: the outcomes [val, cache, look].
Cached(fn, key, ttl, body, store) ==
    {[val |-> store[key].val, cache |-> store,
      look |-> Look(fn, key, store, TRUE, Res(<<>>, 0, "none", <<>>))] :
        x \in IF Servable(store, key, ttl) THEN {0} ELSE {}}
    \cup
    {[val |-> b.val, cache |-> Put(store, key, b.val),
      look |-> Look(fn, key, store, FALSE, b)] :
        b \in IF Stale(store, key, ttl) THEN body ELSE {}}

get_stock_data(ticker, p, store) ==
    Cached("get_stock_data", <<"get_stock_data", ticker, p>>, TTL_HISTORY,
           get_stock_data_body(ticker, p), store)

get_info_cached(ticker, store) ==
    Cached("get_info_cached", <<"get_info_cached", ticker, "">>, TTL_INFO,
           get_info_cached_body(ticker), store)

\* a variant that keeps news as long as history
get_company_news_LongTTL(symbol, api_key, store) ==
    Cached("get_company_news", <<"get_company_news", symbol, api_key>>, TTL_HISTORY,
           get_company_news_body(symbol, api_key), store)

get_company_news(symbol, api_key, store) ==
    Cached("get_company_news", <<"get_company_news", symbol, api_key>>, TTL_NEWS,
           get_company_news_body(symbol, api_key), store)

----------------------------------------------------------------------------
(* The widgets and the clock.                                              *)

\* line 98: the default of the ticker input
DefaultInput == <<"A", ",", " ", "T">>

\* what the user may type instead
InputSamples ==
    {DefaultInput,
     <<"t", ",", ",", " ", "t", " ">>,
     <<" ", ",", "a">>,
     <<>>}

\* line 103: the default key is empty
ApiKeys == {"", "k"}

\* line 100: the default of the slider
DefaultRefresh == 60
RefreshRates == {DefaultRefresh}

\* line 99: the first option is the default
period == "1mo"

\* the instants at which the program is looked at: around the refresh
\* interval and around the two TTLs, or only long after everything expired
Instants == {0, 59, 60, 61, 1801, 3600, 3601}
CoarseInstants == {0, 3601}

\* the ticker inputs of a user who keeps to one listed company
OneTicker == {<<"a">>}

\* user interactions in a session
MaxInteractions == 1
MaxVisits == 2

----------------------------------------------------------------------------
(* What a cycle hands to the presentation layer.                           *)

Ev(kind, d) == [kind |-> kind, d |-> d]

NoCalls == [history |-> 0, info |-> 0, news |-> 0]

Init ==
    /\ now = 0
    /\ pc = "reload"
    /\ tickers_input = DefaultInput
    /\ finnhub_api = ""
    /\ refresh_rate = DefaultRefresh
    /\ in_session = FALSE
    /\ last_refresh = 0
    /\ cache = <<>>
    /\ mpl_imported = FALSE
    /\ tickers = <<>>
    /\ i = 0
    /\ info = EmptyDict
    /\ hist = EmptyFrame
    /\ section = <<>>
    /\ done = <<>>
    /\ runs = 0
    /\ calls = NoCalls
    /\ primary = "none"
    /\ last = NoLookup
    /\ rerun_cause = "start"
    /\ due_at = -1
    /\ unavailable_seen = FALSE

\* Time passes while the script is not running: after it has ended, or
\* ahead of a run that was asked for (`waits` are the requests looked at:
\* "start" for the session's first run, "due" for the refresh check's).
Tick(instants, waits) ==
    /\ pc = "idle" \/ (pc = "reload" /\ rerun_cause \in waits)
    /\ \E t \in instants : t > now /\ now' = t
    /\ UNCHANGED <<pc, tickers_input, finnhub_api, refresh_rate, in_session,
                   last_refresh, cache, mpl_imported, tickers, i, info, hist,
                   section, done, runs, calls, primary, last,
                   rerun_cause, due_at, unavailable_seen>>

\* lines 1-142, with the widget values given
RunStart(input, key, rate) ==
    /\ tickers_input' = input
    /\ finnhub_api' = key
    /\ refresh_rate' = rate
    /\ tickers' = ParseTickers(input)
    /\ i' = 0
    /\ info' = EmptyDict
    /\ hist' = EmptyFrame
    /\ section' = <<>>
    /\ done' = <<>>
    /\ calls' = NoCalls
    /\ primary' = "none"
    /\ last' = NoLookup
    /\ unavailable_seen' = FALSE
    /\ pc' = "refresh"
    /\ UNCHANGED <<now, in_session, last_refresh, cache, mpl_imported,
                   rerun_cause, due_at>>

\* lines 2-137 and 359-361: the script raises before it has built its
\* ticker list (an import, the page config, a widget), and the error leaves
\* run_app
RunRaises(input, key, rate) ==
    /\ tickers_input' = input
    /\ finnhub_api' = key
    /\ refresh_rate' = rate
    /\ tickers' = <<>>
    /\ i' = 0
    /\ info' = EmptyDict
    /\ hist' = EmptyFrame
    /\ section' = <<>>
    /\ done' = <<>>
    /\ calls' = NoCalls
    /\ primary' = "none"
    /\ last' = NoLookup
    /\ unavailable_seen' = FALSE
    /\ pc' = "escaped"
    /\ UNCHANGED <<now, in_session, last_refresh, cache, mpl_imported,
                   rerun_cause, due_at>>

\* A user interaction: the widgets may change, and the script runs.
Interact(inputs, limit) ==
    /\ pc = "idle"
    /\ runs < limit
    /\ runs' = runs + 1
    /\ \E input \in inputs, key \in ApiKeys, rate \in RefreshRates :
           \/ RunStart(input, key, rate)
           \/ RunRaises(input, key, rate)

\* The first run, or a rerun the script asked for: the widgets are as they were.
Reload ==
    /\ pc = "reload"
    /\ \/ RunStart(tickers_input, finnhub_api, refresh_rate)
       \/ RunRaises(tickers_input, finnhub_api, refresh_rate)
    /\ UNCHANGED runs

\* a variant that is due at the interval already
DueAtInterval == now - last_refresh >= refresh_rate

\* line 147
Due == now - last_refresh > refresh_rate

\* a variant that dates the refresh a second back
DueStampBackdated == now - 1

\* a variant that leaves the time of the last refresh as it was
DueStampKept == last_refresh

\* line 148: st.session_state["last_refresh"] = time.time()
DueStamp == now

\* where the loop of line 285 goes with its index at k
LoopAt(k) == IF k > Len(tickers) THEN "footer" ELSE "get_info"

\* lines 144-149
RefreshCheck ==
    /\ pc = "refresh"
    /\ IF ~in_session
       THEN /\ in_session' = TRUE
            /\ last_refresh' = now
            /\ i' = 1
            /\ pc' = LoopAt(1)
            /\ rerun_cause' = "none"
            /\ UNCHANGED due_at
       ELSE IF Due
            THEN /\ last_refresh' = DueStamp
                 /\ pc' = "reload"
                 /\ rerun_cause' = "due"
                 /\ due_at' = now
                 /\ UNCHANGED <<in_session, i>>
            ELSE /\ i' = 1
                 /\ pc' = LoopAt(1)
                 /\ rerun_cause' = "none"
                 /\ UNCHANGED <<in_session, last_refresh, due_at>>
    /\ UNCHANGED <<now, tickers_input, finnhub_api, refresh_rate, cache,
                   mpl_imported, tickers, info, hist, section, done, runs, calls,
                   primary, last, unavailable_seen>>

----------------------------------------------------------------------------
(* The loop body, lines 285-352, one action per step of it.                *)

ticker == tickers[i]

\* a variant that takes the same ticker again
EndTickerAgain(log, how, next) ==
    /\ section' = log
    /\ done' = Append(done, [ticker |-> ticker, how |-> how])
    /\ i' = i
    /\ pc' = "get_info"

\* the loop is through with the ticker: its section is `log`
EndTicker(log, how, next) ==
    /\ section' = log
    /\ done' = Append(done, [ticker |-> ticker, how |-> how])
    /\ i' = i + 1
    /\ pc' = next

\* a variant in which an error ends the batch
AfterErrorAborts == "footer"

\* lines 351-352: the handler reports the error; the loop goes on
AfterError == LoopAt(i + 1)

Raise(log, cause) == EndTicker(Append(log, Ev("error", cause)), "error", AfterError)

\* line 287
GetInfo ==
    /\ pc = "get_info"
    /\ \E r \in get_info_cached(ticker, cache) :
           /\ info' = r.val
           /\ cache' = r.cache
           /\ calls' = [calls EXCEPT !.info = @ + r.look.ext]
           /\ last' = r.look
    /\ section' = <<>>
    /\ primary' = "none"
    /\ pc' = "get_hist"
    /\ UNCHANGED <<now, tickers_input, finnhub_api, refresh_rate, in_session,
                   last_refresh, mpl_imported, tickers, i, hist, done, runs,
                   rerun_cause, due_at, unavailable_seen>>

\* a variant that takes no frame for empty
IsEmptyFrameNever(h) == FALSE

\* hist.empty
IsEmptyFrame(h) == Len(h) = 0

\* lines 288-292
GetHist ==
    /\ pc = "get_hist"
    /\ \E r \in get_stock_data(ticker, period, cache) :
           /\ hist' = r.val
           /\ cache' = r.cache
           /\ calls' = [calls EXCEPT !.history = @ + r.look.ext]
           /\ last' = r.look
           /\ IF IsEmptyFrame(r.val)
              THEN EndTicker(Append(section, Ev("warning", "No data available")),
                             "no_data", LoopAt(i + 1))
              ELSE /\ pc' = "header"
                   /\ UNCHANGED <<section, done, i>>
    /\ UNCHANGED <<now, tickers_input, finnhub_api, refresh_rate, in_session,
                   last_refresh, mpl_imported, tickers, info, runs, primary,
                   rerun_cause, due_at, unavailable_seen>>

\* line 193: the domain left of the website
HasDomain(site) == site \notin {"", "https://", "http://"}

\* lines 191-195: "raise", "none" or "url"
LogoUrl(d) ==
    IF ~d.isdict THEN "raise"
    ELSE IF Truthy(d.f["logo_url"]) THEN "url"
    ELSE LET site == Get(d.f, "website", Str(""))
         IN  IF site.t # "str" THEN "raise"
             ELSE IF HasDomain(site.s) THEN "url" ELSE "none"

\* lines 189-210 (line 295); whether the logo could be fetched (lines
\* 200-207) changes nothing the loop body goes on with
render_company_header ==
    /\ pc = "header"
    /\ IF LogoUrl(info) = "raise"
       THEN Raise(section, "header")
       ELSE /\ section' = Append(section,
                   Ev("header", Get(info.f, "shortName", Str("<ticker>"))))
            /\ pc' = "chart"
            /\ UNCHANGED <<i, done>>
    /\ last' = NoLookup
    /\ UNCHANGED <<now, tickers_input, finnhub_api, refresh_rate, in_session,
                   last_refresh, cache, mpl_imported, tickers, info, hist, runs,
                   calls, primary,
                   rerun_cause, due_at, unavailable_seen>>

\* lines 214-218: the imports succeed when the modules are already loaded,
\* and otherwise when the toolkit is installed
ImportOutcomes == IF mpl_imported THEN {TRUE} ELSE BOOLEAN

\* lines 220-260: what the primary strategy does once its imports succeeded
PrimaryOutcomes == {"rendered", "raised"}

\* a variant that draws nothing
render_plotly_fallback_Nothing(log) == log

\* lines 262-280
render_plotly_fallback(log) == Append(log, Ev("plotly_chart", "fallback"))

\* lines 298-300, with render_matplotlib_cyberpunk_chart (lines 212-260)
Chart ==
    /\ pc = "chart"
    /\ \E imported \in ImportOutcomes :
          /\ mpl_imported' = imported
          /\ unavailable_seen' = (unavailable_seen \/ ~imported)
          /\ IF ~imported
             THEN /\ primary' = "unavailable"
                  /\ section' = render_plotly_fallback(section)
                  /\ pc' = "metrics"
                  /\ UNCHANGED <<i, done>>
             ELSE \E o \in PrimaryOutcomes :
                     /\ primary' = o
                     /\ IF o = "raised"
                        THEN Raise(section, "chart")
                        ELSE /\ section' = Append(section, Ev("pyplot", "primary"))
                             /\ pc' = "metrics"
                             /\ UNCHANGED <<i, done>>
    /\ last' = NoLookup
    /\ UNCHANGED <<now, tickers_input, finnhub_api, refresh_rate, in_session,
                   last_refresh, cache, tickers, info, hist, runs, calls,
                   rerun_cause, due_at>>

\* f"${v:,.2f}" if v else "N/A" (the format raises on a value that is no number)
Money(fmt, v) ==
    IF ~Truthy(v) THEN Str("N/A")
    ELSE IF v.t = "num" THEN [t |-> fmt, n |-> v.n, s |-> ""]
    ELSE [t |-> "raise", n |-> 0, s |-> ""]

\* a variant that looks at currentPrice only
PriceTextCurrentOnly(d) == Money("$,.2f", Get(d, "currentPrice", NoneV))

\* lines 305 and 310
PriceText(d) ==
    Money("$,.2f", Or(Get(d, "currentPrice", NoneV), Get(d, "regularMarketPrice", NoneV)))

\* lines 306 and 312
CapText(d) == Money("$,.0f", Get(d, "marketCap", NoneV))

\* f"{v}": None is written as the text None
PyStr(v) == IF v.t \in {"absent", "none"} THEN Str("None") ELSE v

\* lines 307, 308 and 314: f"${high} / ${low}"
RangeText(d) ==
    [high |-> PyStr(Get(d, "fiftyTwoWeekHigh", NoneV)),
     low  |-> PyStr(Get(d, "fiftyTwoWeekLow", NoneV))]

\* a variant that measures the change from the first close of the series
ChangeTextFromFirst(h) ==
    [change |-> h[Len(h)] - h[1], pct100 |-> ((h[Len(h)] - h[1]) * 10000) \div h[1]]

\* lines 318-320: the change, and the percent in hundredths
ChangeText(h) ==
    LET lst == h[Len(h)]
        prev == h[Len(h) - 1]
    IN  [change |-> lst - prev, pct100 |-> ((lst - prev) * 10000) \div prev]

Metric(label, v) == Ev("metric", [label |-> label, v |-> v])

\* lines 303-320
Metrics ==
    /\ pc = "metrics"
    /\ IF PriceText(info.f).t = "raise"
       THEN /\ Raise(section, "metrics")
            /\ last' = NoLookup
            /\ UNCHANGED <<cache, calls>>
       ELSE LET o1 == Append(section, Metric("Current Price", PriceText(info.f)))
            IN  IF CapText(info.f).t = "raise"
                THEN /\ Raise(o1, "metrics")
                     /\ last' = NoLookup
                     /\ UNCHANGED <<cache, calls>>
                ELSE LET o2 == Append(o1, Metric("Market Cap", CapText(info.f)))
                         o3 == Append(o2, Metric("52w High / Low", RangeText(info.f)))
                     IN  \E r \in get_stock_data(ticker, "5d", cache) :
                            /\ cache' = r.cache
                            /\ calls' = [calls EXCEPT !.history = @ + r.look.ext]
                            /\ last' = r.look
                            /\ section' =
                                  IF Len(r.val) >= 2
                                  THEN Append(o3, Metric("Daily Change", ChangeText(r.val)))
                                  ELSE o3
                            /\ pc' = "summary"
                            /\ UNCHANGED <<i, done>>
    /\ UNCHANGED <<now, tickers_input, finnhub_api, refresh_rate, in_session,
                   last_refresh, mpl_imported, tickers, info, hist, runs, primary,
                   rerun_cause, due_at, unavailable_seen>>

\* summary.strip() of a string
IsBlank(text) == text \in {"", " "}

\* lines 323-330
Summary ==
    /\ pc = "summary"
    /\ LET summary == Get(info.f, "longBusinessSummary",
                          Str("No company description available."))
       IN  IF Truthy(summary) /\ summary.t # "str"
           THEN Raise(section, "summary")
           ELSE /\ section' = Append(Append(section,
                       IF Truthy(summary) /\ ~IsBlank(summary.s)
                       THEN Ev("expander", summary.s)
                       ELSE Ev("info", "No company description available.")),
                       Ev("divider", "---"))
                /\ pc' = "news"
                /\ UNCHANGED <<i, done>>
    /\ last' = NoLookup
    /\ UNCHANGED <<now, tickers_input, finnhub_api, refresh_rate, in_session,
                   last_refresh, cache, mpl_imported, tickers, info, hist, runs,
                   calls, primary,
                   rerun_cause, due_at, unavailable_seen>>

NewsCap == 5

\* news[:5]
FirstN(news, n) == SubSeq(news, 1, IF Len(news) < n THEN Len(news) ELSE n)

\* lines 340-344: one card per article
Cards(news) == [k \in 1..Len(news) |-> Ev("news_card", news[k])]

\* a variant that takes the key for configured
HasKeyAlways == TRUE

\* lines 334 and 346: the key is configured
HasKey == finnhub_api # ""

\* lines 339-347
NewsBlock(news) ==
    IF news # <<>> THEN Cards(FirstN(news, NewsCap))
    ELSE IF HasKey THEN <<Ev("info", "No recent news available.")>>
    ELSE <<>>

\* lines 333-349
News ==
    /\ pc = "news"
    /\ LET o1 == Append(section, Ev("subheader", "Recent News"))
       IN  IF ~HasKey
           THEN /\ EndTicker(Append(Append(o1, Ev("info", "Enter your Finnhub API key"))
                                        \o NewsBlock(<<>>),
                                    Ev("hr", "end")),
                             "section", LoopAt(i + 1))
                /\ last' = NoLookup
                /\ UNCHANGED <<cache, calls>>
           ELSE \E r \in get_company_news(ticker, finnhub_api, cache) :
                   /\ cache' = r.cache
                   /\ calls' = [calls EXCEPT !.news = @ + r.look.ext]
                   /\ last' = r.look
                   /\ EndTicker(Append(o1 \o NewsBlock(r.val), Ev("hr", "end")),
                                "section", LoopAt(i + 1))
    /\ UNCHANGED <<now, tickers_input, finnhub_api, refresh_rate, in_session,
                   last_refresh, mpl_imported, tickers, info, hist, runs, primary,
                   rerun_cause, due_at, unavailable_seen>>

\* lines 354-356: the footer is emitted and the script ends; its locals end
\* with it
Footer ==
    /\ pc = "footer"
    /\ pc' = "idle"
    /\ tickers' = <<>>
    /\ i' = 0
    /\ info' = EmptyDict
    /\ hist' = EmptyFrame
    /\ section' = <<>>
    /\ done' = <<>>
    /\ calls' = NoCalls
    /\ primary' = "none"
    /\ last' = NoLookup
    /\ unavailable_seen' = FALSE
    /\ UNCHANGED <<now, tickers_input, finnhub_api, refresh_rate, in_session,
                   last_refresh, cache, mpl_imported, runs,
                   rerun_cause, due_at>>

\* a variant in which the host goes down with the error
OnEscapeCrash == "crashed"

\* line 364: st.rerun()
OnEscape == "reload"

\* lines 361-364: the handler around run_app()
TopLevelHandler ==
    /\ pc = "escaped"
    /\ pc' = OnEscape
    /\ rerun_cause' = "escaped"
    /\ UNCHANGED <<now, tickers_input, finnhub_api, refresh_rate, in_session,
                   last_refresh, cache, mpl_imported, tickers, i, info, hist,
                   section, done, runs, calls, primary, last, due_at,
                   unavailable_seen>>

\* one step of a script run
Step ==
    \/ Reload
    \/ RefreshCheck
    \/ GetInfo
    \/ GetHist
    \/ render_company_header
    \/ Chart
    \/ Metrics
    \/ Summary
    \/ News
    \/ Footer
    \/ TopLevelHandler

\* Sessions in which the user edits the ticker list and the key.
Next ==
    \/ Tick(CoarseInstants, {"start", "due"})
    \/ Interact(InputSamples, MaxInteractions)
    \/ Step

Spec == Init /\ [][Next]_vars

\* Sessions of a user who keeps to one ticker and comes back over hours.
NextTime ==
    \/ Tick(Instants, {"due"})
    \/ Interact(OneTicker, MaxVisits)
    \/ Step

SpecTime == Init /\ [][NextTime]_vars

\* Sessions of a user who keeps the default ticker list.  A script that has
\* been started runs on: every statement of it is executed, and every
\* external call returns or fails.
NextLive ==
    \/ Tick(CoarseInstants, {"due"})
    \/ Interact({DefaultInput}, MaxInteractions)
    \/ Step

SpecLive == Init /\ [][NextLive]_vars /\ WF_vars(Step)

----------------------------------------------------------------------------
(* Properties.                                                             *)

Count(log, kind) == Cardinality({k \in 1..Len(log) : log[k].kind = kind})

BodySteps == {"get_hist", "header", "chart", "metrics", "summary", "news"}

\* the loop has just finished a ticker: `section` is that ticker's
JustEnded == pc \in {"get_info", "footer"} /\ i >= 2 /\ Len(done) = i - 1

Ended == done[Len(done)]

\* C1: when a ticker's processing raises, exactly one error is emitted for
\* that ticker, as the last thing of its section; the failing step leaves the
\* caches, the session and the ticker list as they were; and the loop goes on
\* to every later ticker, so that the cycle reaches the footer only with an
\* outcome for every ticker of the list, in the order of the list.
C1_FailureIsolation ==
    /\ [](/\ pc \in BodySteps \cup {"get_info", "footer"} =>
                /\ Len(done) = i - 1
                /\ \A k \in 1..Len(done) : done[k].ticker = tickers[k]
          /\ pc = "footer" => Len(done) = Len(tickers)
          /\ JustEnded =>
                (Ended.how = "error" <=> Count(section, "error") = 1)
          /\ JustEnded /\ Ended.how = "error" =>
                /\ section[Len(section)].kind = "error"
                /\ i <= Len(tickers) => pc = "get_info")
    /\ [][(Len(done') = Len(done) + 1 /\ done'[Len(done')].how = "error") =>
              /\ done'[Len(done')].ticker = tickers[i]
              /\ i' = i + 1
              /\ cache' = cache
              /\ tickers' = tickers
              /\ in_session' = in_session
              /\ last_refresh' = last_refresh]_vars

\* a cycle in which the first ticker failed and the second got its section
C1_Witness ==
    /\ pc = "footer"
    /\ Len(done) = 2
    /\ done[1].how = "error"
    /\ done[2].how = "section"

\* C2: a ticker whose history lookup returned an empty frame gets the "no
\* data" notice and nothing else (no header, chart, metric, description or
\* news), no later step of the body runs with an empty frame, and the loop
\* goes on to the next ticker.
C2_NoDataNotice ==
    /\ pc \in {"header", "chart", "metrics", "summary", "news"} => Len(hist) > 0
    /\ JustEnded /\ Len(hist) = 0 => Ended.how = "no_data"
    /\ JustEnded /\ Ended.how = "no_data" =>
          /\ Len(hist) = 0
          /\ section = <<Ev("warning", "No data available")>>
          /\ i <= Len(tickers) => pc = "get_info"

\* the first ticker had no data and the second got its section
C2_Witness ==
    /\ pc = "footer"
    /\ Len(done) = 2
    /\ done[1].how = "no_data"
    /\ done[2].how = "section"

\* the TTL the specification gives for a cached function
ClaimedTTL(fn) == IF fn = "get_company_news" THEN 1800 ELSE 3600

\* C3: a cached call that finds an entry younger than the TTL (3600 s for
\* history and info, 1800 s for news) makes no external call, serves the
\* stored value and leaves the entry as it was; one that finds no entry, or
\* one older than the TTL, makes exactly one external call and stores its
\* result with the time of the call.
C3_CacheTTL ==
    last.fn # "" =>
        /\ (last.had /\ last.age < ClaimedTTL(last.fn)) =>
              /\ last.ext = 0
              /\ last.served
              /\ cache[last.key].at = now - last.age
        /\ (~last.had \/ last.age > ClaimedTTL(last.fn)) =>
              /\ last.ext = 1
              /\ ~last.served
              /\ cache[last.key].at = now

\* a news entry older than 1800 s has just been fetched again
C3_Witness ==
    /\ last.fn = "get_company_news"
    /\ last.had
    /\ last.age > 1800
    /\ last.age < 3600
    /\ last.ext = 1
    /\ calls.news = 1

\* C4: at the refresh check of a session that has a last_refresh, the script
\* asks for a reload if and only if now - last_refresh is greater than the
\* refresh interval; with a reload last_refresh becomes now, without one it
\* stays as it is and the loop starts (interval 60: 61 reloads, 59 and 60
\* do not).
C4_RefreshScheduler ==
    [][(pc = "refresh" /\ in_session) =>
          /\ (pc' = "reload") <=> (now - last_refresh > refresh_rate)
          /\ pc' = "reload" => last_refresh' = now
          /\ pc' # "reload" =>
                /\ last_refresh' = last_refresh
                /\ pc' \in {"get_info", "footer"}
          /\ (refresh_rate = 60 /\ now - last_refresh = 61) => pc' = "reload"
          /\ (refresh_rate = 60 /\ now - last_refresh \in {59, 60}) => pc' # "reload"
      ]_vars

\* 61 s after the first cycle the check has asked for a reload
C4_Witness ==
    /\ pc = "reload"
    /\ in_session
    /\ refresh_rate = 60
    /\ now = 61
    /\ last_refresh = 61

\* C5: when the external client fails (it raises, answers with a status
\* other than 200, or with a body that is no list of items), the cached
\* function returns the empty value of its kind (an empty mapping for info,
\* an empty frame for history, an empty list for news), and the step that
\* made the call does not end in a per-ticker error.
C5_LookupNeverRaises ==
    /\ last.fn # "" => ~(JustEnded /\ Ended.how = "error")
    /\ last.client \in {"raised", "status", "json"} =>
          /\ last.ext = 1
          /\ IF last.fn = "get_info_cached"
             THEN cache[last.key].val = EmptyDict /\ info = EmptyDict
             ELSE cache[last.key].val = <<>>
          /\ (last.fn = "get_stock_data" /\ last.key[3] = period) =>
                (hist = <<>> /\ JustEnded /\ Ended.how = "no_data")
          /\ last.fn = "get_company_news" =>
                (JustEnded /\ Ended.how = "section" /\ Count(section, "news_card") = 0)

\* the news provider answered 200 with a body that is no list of items
C5_Witness ==
    /\ last.fn = "get_company_news"
    /\ last.client = "json"
    /\ JustEnded
    /\ Ended.how = "section"

\* C6: when the primary chart strategy raises for a ticker, the fallback
\* chart is drawn for it, exactly one chart is produced and no per-ticker
\* error is emitted.
C6_PrimaryFailureFallsBack ==
    primary = "raised" =>
        /\ Count(section, "plotly_chart") + Count(section, "pyplot") = 1
        /\ Count(section, "plotly_chart") = 1
        /\ Count(section, "error") = 0

\* C7: when the primary toolkit cannot be imported, the primary strategy
\* draws nothing, the fallback chart is drawn exactly once, the chart step
\* emits no error and the body goes on with the metrics.
C7_FallbackWhenUnavailable ==
    primary = "unavailable" =>
        /\ Len(hist) > 0
        /\ Count(section, "plotly_chart") = 1
        /\ Count(section, "pyplot") = 0
        /\ \A k \in 1..Len(section) :
              section[k].kind = "error" => section[k].d # "chart"
        /\ pc \in {"metrics", "summary", "news"} \/ JustEnded
        /\ pc = "metrics" =>
              /\ Count(section, "error") = 0
              /\ section[Len(section)].kind = "plotly_chart"

\* the fallback chart has just been drawn
C7_Witness ==
    /\ primary = "unavailable"
    /\ pc = "metrics"
    /\ section[Len(section)] = Ev("plotly_chart", "fallback")

\* the tickers the specification expects of each ticker input
ExpectedTickers(input) ==
    CASE input = <<"A", ",", " ", "T">>           -> << <<"A">>, <<"T">> >>
      [] input = <<"t", ",", ",", " ", "t", " ">> -> << <<"T">>, <<"T">> >>
      [] input = <<" ", ",", "a">>                -> << <<"A">> >>
      [] input = <<>>                             -> << >>

\* C8: the loop processes the non-empty entries of the ticker input, trimmed
\* and uppercased, one at a time in the order given; each gets exactly one
\* outcome (a section, a "no data" notice or an error), empty entries get
\* none, and a symbol given twice is processed twice.
C8_OrderAndDuplicates ==
    pc \in BodySteps \cup {"refresh", "get_info", "footer"} =>
        /\ tickers = ExpectedTickers(tickers_input)
        /\ pc # "refresh" =>
              /\ Len(done) = i - 1
              /\ \A k \in 1..Len(done) :
                    /\ done[k].ticker = ExpectedTickers(tickers_input)[k]
                    /\ done[k].how \in {"section", "no_data", "error"}
        /\ pc \in BodySteps => i \in 1..Len(tickers)
        /\ pc = "footer" => Len(done) = Len(ExpectedTickers(tickers_input))
        /\ JustEnded =>
              /\ Count(section, "hr") + Count(section, "warning")
                    + Count(section, "error") = 1
              /\ section[Len(section)].kind \in {"hr", "warning", "error"}

\* the input "t,, t " has been processed: two outcomes for T, none for the
\* empty entry
C8_Witness ==
    /\ pc = "footer"
    /\ tickers_input = <<"t", ",", ",", " ", "t", " ">>
    /\ Len(done) = 2
    /\ done[1].ticker = <<"T">>
    /\ done[2].ticker = <<"T">>

\* an item with a headline and a url, both non-empty strings
ClaimedKept(item) ==
    /\ item.headline.t = "str" /\ item.headline.s # ""
    /\ item.url.t = "str" /\ item.url.s # ""

NewsCards(log) == SelectSeq(log, LAMBDA e : e.kind = "news_card")

\* C9: the news list is the provider's items that have both a headline and a
\* url, in the provider's order; the entries emitted for a ticker are the
\* first min(5, n) of its n news items, in that order.
C9_NewsFilterAndCap ==
    /\ ~ItemKept(Item(Str(""), Str("https://x"), 0))
    /\ ItemKept(Item(Str("A"), Str("https://x"), 0))
    /\ last.fn = "get_company_news" =>
          LET news == cache[last.key].val
              n == IF Len(news) < 5 THEN Len(news) ELSE 5
          IN  /\ last.client = "ok" => news = SelectSeq(last.data, ClaimedKept)
              /\ NewsCards(section) = [k \in 1..n |-> Ev("news_card", news[k])]
              /\ Len(NewsCards(section)) <= 5

\* seven items came, six were kept and five were emitted
C9_Witness ==
    /\ last.fn = "get_company_news"
    /\ last.client = "ok"
    /\ Len(last.data) = 7
    /\ Len(cache[last.key].val) = 6
    /\ Count(section, "news_card") = 5

IsPrompt(e) == e.kind = "info" /\ e.d = "Enter your Finnhub API key"

\* C10: get_company_news is never called with an empty key; while the key
\* is empty no call to the news provider is made, and a ticker that reaches
\* the news step gets the prompt to configure the key, once, and neither news
\* entries nor the "no recent news" notice.
C10_MissingNewsKey ==
    /\ \A key \in DOMAIN cache : ~(key[1] = "get_company_news" /\ key[3] = "")
    /\ finnhub_api = "" =>
          /\ calls.news = 0
          /\ last.fn # "get_company_news"
          /\ (JustEnded /\ Ended.how = "section") =>
                /\ Len(SelectSeq(section, IsPrompt)) = 1
                /\ Count(section, "news_card") = 0
                /\ \A k \in 1..Len(section) :
                      section[k].kind = "info" =>
                          section[k].d # "No recent news available."

\* the user has cleared the key, and a ticker got the prompt
C10_Witness ==
    /\ finnhub_api = ""
    /\ runs >= 1
    /\ JustEnded
    /\ Ended.how = "section"
    /\ Len(SelectSeq(section, IsPrompt)) = 1

\* the metrics of a section that carry the label
MetricsOf(log, label) ==
    SelectSeq(log, LAMBDA e : e.kind = "metric" /\ e.d.label = label)

\* C11: right after the metric step has looked up the 5-day series, the
\* section has a Daily Change metric if and only if the series has at least
\* two points; the change is the last close minus the one before it and the
\* percent is change / previous close * 100 (closes [100, 105]: 5.00 and
\* 5.00%); with fewer than two points there is no Daily Change metric at all.
C11_DailyChange ==
    /\ ChangeText(<<100, 105>>) = [change |-> 5, pct100 |-> 500]
    /\ (last.fn = "get_stock_data" /\ last.key[3] = "5d") =>
          LET h5 == cache[last.key].val
              shown == MetricsOf(section, "Daily Change")
          IN  /\ pc = "summary"
              /\ Len(shown) = (IF Len(h5) >= 2 THEN 1 ELSE 0)
              /\ Len(h5) >= 2 =>
                    LET change == h5[Len(h5)] - h5[Len(h5) - 1]
                    IN  /\ shown[1].d.v.change = change
                        /\ shown[1].d.v.pct100 * h5[Len(h5) - 1] <= change * 10000
                        /\ (shown[1].d.v.pct100 + 1) * h5[Len(h5) - 1] > change * 10000
    /\ pc \in {"header", "chart", "metrics"} =>
          Len(MetricsOf(section, "Daily Change")) = 0

\* a series of three closes gave a change of 5 and 5.00%
C11_Witness ==
    /\ pc = "summary"
    /\ last.key = <<"get_stock_data", <<"A">>, "5d">>
    /\ Len(cache[last.key].val) = 3
    /\ MetricsOf(section, "Daily Change")
          = <<Ev("metric", [label |-> "Daily Change",
                            v |-> [change |-> 5, pct100 |-> 500]])>>

\* a series of one close gave no Daily Change metric
C11_WitnessNone ==
    /\ pc = "summary"
    /\ last.fn = "get_stock_data"
    /\ Len(cache[last.key].val) = 1
    /\ Len(MetricsOf(section, "Daily Change")) = 0

\* a field that is there with a value
Present(v) == v.t \notin {"absent", "none"}

\* the text of a price
Dollars(v) == [t |-> "$,.2f", n |-> v.n, s |-> ""]

PriceShown == MetricsOf(section, "Current Price")

\* the metric step raised while formatting the price
PriceRaised ==
    /\ JustEnded
    /\ Ended.how = "error"
    /\ section[Len(section)].d = "metrics"
    /\ Len(PriceShown) = 0

BothMissing(d) == ~Present(d["currentPrice"]) /\ ~Present(d["regularMarketPrice"])

\* C12: for every company-info mapping the current-price metric shows
\* currentPrice if present, else regularMarketPrice if present, else "N/A".
C12_PresentPriceShown ==
    Len(PriceShown) = 1 =>
        PriceShown[1].d.v =
            (IF Present(info.f["currentPrice"]) THEN Dollars(info.f["currentPrice"])
             ELSE IF Present(info.f["regularMarketPrice"])
                  THEN Dollars(info.f["regularMarketPrice"])
             ELSE Str("N/A"))

\* a number other than zero
Shows(v) == v.t = "num" /\ v.n # 0

\* What the code does: the metric shows currentPrice if it is a number other
\* than zero, else regularMarketPrice if it is a number other than zero,
\* else "N/A"; when both fields are missing the metric is "N/A" and the
\* metric step raises nothing.
TruthyPriceShown ==
    /\ Len(PriceShown) <= 1
    /\ Len(PriceShown) = 1 =>
          PriceShown[1].d.v =
              (IF Shows(info.f["currentPrice"]) THEN Dollars(info.f["currentPrice"])
               ELSE IF Shows(info.f["regularMarketPrice"])
                    THEN Dollars(info.f["regularMarketPrice"])
               ELSE Str("N/A"))
    /\ (info.isdict /\ BothMissing(info.f)) =>
          /\ ~PriceRaised
          /\ pc \in {"summary", "news"} =>
                PriceShown = <<Metric("Current Price", Str("N/A"))>>

\* a mapping without either price got "N/A"
BothMissingShown ==
    /\ pc = "summary"
    /\ BothMissing(info.f)
    /\ PriceShown = <<Metric("Current Price", Str("N/A"))>>

\* a mapping without currentPrice got the regularMarketPrice
RegularPriceShown ==
    /\ pc = "summary"
    /\ ~Present(info.f["currentPrice"])
    /\ PriceShown = <<Metric("Current Price", Dollars(Num(149)))>>

\* C13: the market-cap metric and the 52-week metric pass the values of the
\* info through, and each shows "N/A" where its field (marketCap,
\* fiftyTwoWeekHigh, fiftyTwoWeekLow) is absent.
C13_CapAndRangeOrNA ==
    LET cap == MetricsOf(section, "Market Cap")
        range == MetricsOf(section, "52w High / Low")
        NA(field, shown) == ~Present(info.f[field]) => shown = Str("N/A")
    IN  /\ Len(cap) = 1 =>
              /\ NA("marketCap", cap[1].d.v)
              /\ Shows(info.f["marketCap"]) => cap[1].d.v.n = info.f["marketCap"].n
        /\ Len(range) = 1 =>
              /\ NA("fiftyTwoWeekHigh", range[1].d.v.high)
              /\ NA("fiftyTwoWeekLow", range[1].d.v.low)
              /\ Present(info.f["fiftyTwoWeekHigh"]) =>
                    range[1].d.v.high = info.f["fiftyTwoWeekHigh"]
              /\ Present(info.f["fiftyTwoWeekLow"]) =>
                    range[1].d.v.low = info.f["fiftyTwoWeekLow"]

\* What the code does for the market cap alone: "N/A" where it is absent
\* and the number where it is one other than zero.
CapOrNA ==
    LET cap == MetricsOf(section, "Market Cap")
    IN  Len(cap) = 1 =>
            /\ ~Present(info.f["marketCap"]) => cap[1].d.v = Str("N/A")
            /\ Shows(info.f["marketCap"]) => cap[1].d.v.n = info.f["marketCap"].n

\* a field that holds text where a number is expected
NonNumeric(v) == v.t = "str" /\ v.s # ""

\* C14: a metric field of the company info that holds a non-numeric value
\* raises nothing out of the metric step: no per-ticker error comes from the
\* metrics, and a ticker with such a field that got its header and its chart
\* gets its description and its news as well.
C14_BadMetricFieldAbsorbed ==
    /\ \A k \in 1..Len(section) :
          section[k].kind = "error" => section[k].d # "metrics"
    /\ (/\ JustEnded
        /\ info.isdict
        /\ NonNumeric(info.f["currentPrice"]) \/ NonNumeric(info.f["marketCap"])
        /\ Count(section, "pyplot") + Count(section, "plotly_chart") = 1) =>
          /\ Ended.how = "section"
          /\ Count(section, "subheader") = 1

\* where the script can be
Positions ==
    {"reload", "refresh", "get_info", "get_hist", "header", "chart", "metrics",
     "summary", "news", "footer", "idle", "escaped"}

\* C15: an error that leaves run_app does not bring the host down: the
\* handler around run_app is there to take it, and the only thing that
\* follows is the request for a full reload, with session, caches and widgets
\* as they were; an error raised inside the ticker loop never gets that far.
C15_TopLevelRecovery ==
    /\ [](pc \in Positions)
    /\ [](pc = "escaped" => ENABLED TopLevelHandler)
    /\ [][pc = "escaped" =>
              /\ pc' = "reload"
              /\ rerun_cause' = "escaped"
              /\ UNCHANGED <<cache, in_session, last_refresh, tickers_input,
                             finnhub_api, refresh_rate, now>>]_vars
    /\ [][pc' = "escaped" => pc \in {"idle", "reload"}]_vars

\* a run started by the user raised, and the handler has asked for a reload
C15_Witness ==
    /\ pc = "reload"
    /\ rerun_cause = "escaped"
    /\ in_session
    /\ runs = 1

\* C16: once a chart call has found the primary toolkit unavailable, every
\* later chart call uses the fallback and does not try the primary strategy
\* again, whatever has become of the toolkit since.
C16_AvailabilityDetectedOnce ==
    /\ unavailable_seen => primary \in {"none", "unavailable"}
    /\ (unavailable_seen /\ pc \in {"metrics", "summary", "news"}) =>
          /\ Count(section, "plotly_chart") = 1
          /\ Count(section, "pyplot") = 0

\* the empty value of the kind of a cache key
EmptyOf(key) == IF key[1] = "get_info_cached" THEN EmptyDict ELSE <<>>

\* C17: a lookup whose client failed stores the empty value with the time of
\* the call; and a lookup that finds an empty entry younger than the TTL,
\* in the same cycle or a later one, makes no external call, leaves the
\* caches as they are and hands the empty value on, whatever the provider
\* would answer by then.
C17_FailureIsCached ==
    /\ [](last.client \in {"raised", "status", "json"} =>
             /\ last.key \in DOMAIN cache
             /\ cache[last.key] = [val |-> EmptyOf(last.key), at |-> now])
    /\ [][(/\ pc \in {"get_info", "get_hist", "metrics", "news"}
           /\ last'.fn # ""
           /\ last'.key \in DOMAIN cache
           /\ cache[last'.key].val = EmptyOf(last'.key)
           /\ now - cache[last'.key].at < ClaimedTTL(last'.fn)) =>
              /\ last'.ext = 0
              /\ last'.served
              /\ cache' = cache
              /\ calls' = calls
              /\ last'.fn = "get_info_cached" => info' = EmptyDict
              /\ pc = "get_hist" => (hist' = <<>> /\ pc' \in {"get_info", "footer"})
              /\ pc = "metrics" => Len(MetricsOf(section', "Daily Change")) = 0
              /\ pc = "news" => Count(section', "news_card") = 0]_vars

\* 59 s or more after the info lookup of a listed company failed, a later
\* cycle is served the empty mapping
C17_Witness ==
    /\ last.fn = "get_info_cached"
    /\ last.key[2] = <<"A">>
    /\ last.served
    /\ last.age >= 59
    /\ last.age < 3600
    /\ info = EmptyDict
    /\ runs >= 1

\* C18: the refresh check asks for the reload before the loop, so no ticker
\* is processed in the cycle that takes the transition; the cycle run for
\* that reload, when it starts within the refresh interval of the transition,
\* takes no transition and starts the loop over the ticker list, which it runs
\* to the footer; and a transition comes more than one refresh interval after
\* the transition before it.
C18_ReloadDoesNotLoop ==
    /\ []((pc = "reload" /\ rerun_cause = "due") =>
             /\ i = 0
             /\ done = <<>>
             /\ section = <<>>
             /\ calls = NoCalls
             /\ last_refresh = due_at)
    /\ [](pc = "footer" => Len(done) = Len(tickers))
    /\ [][(/\ pc = "refresh"
           /\ rerun_cause = "due"
           /\ now - due_at <= refresh_rate) =>
              /\ pc' = LoopAt(1)
              /\ i' = 1
              /\ UNCHANGED <<last_refresh, due_at, tickers>>]_vars
    /\ [][(pc = "refresh" /\ pc' = "reload") =>
              /\ due_at' = now
              /\ due_at = -1 \/ now - due_at > refresh_rate]_vars

\* the check asked for a reload at 3600, the cycle run for it started a
\* second later and went through the whole list
C18_Witness ==
    /\ pc = "footer"
    /\ runs = 1
    /\ due_at = 3600
    /\ last_refresh = 3600
    /\ now = 3601
    /\ Len(done) = Len(tickers)
    /\ Len(done) >= 1

\* C19: last_refresh is never ahead of the clock and never decreases; it is
\* written only by the refresh check, to the time of the check: on the first
\* cycle of a session, which asks for no reload, and on a transition, which
\* does; every other step, a user's interaction and the run that follows it
\* included, leaves it as it is.
C19_LastRefresh ==
    /\ [](last_refresh <= now)
    /\ [][last_refresh' >= last_refresh]_vars
    /\ [][(last_refresh' # last_refresh \/ in_session' # in_session) =>
              /\ pc = "refresh"
              /\ last_refresh' = now
              /\ in_session'
              /\ \/ ~in_session /\ pc' # "reload"
                 \/ in_session /\ now - last_refresh > refresh_rate /\ pc' = "reload"]_vars
    /\ [][(pc = "refresh" /\ ~in_session) =>
              /\ in_session'
              /\ last_refresh' = now
              /\ pc' = LoopAt(1)]_vars
    /\ [][(pc = "refresh" /\ pc' = "reload") => last_refresh' = now]_vars
    /\ [][pc # "refresh" => UNCHANGED <<last_refresh, in_session>>]_vars

\* the first cycle of a session that began at 3601 has set last_refresh and
\* gone on to the loop
C19_Witness ==
    /\ in_session
    /\ last_refresh = 3601
    /\ due_at = -1
    /\ runs = 0
    /\ pc = "get_info"
    /\ i = 1

\* how far a cycle has come
Stage(p) ==
    CASE p = "refresh"  -> 0
      [] p = "get_info" -> 1
      [] p = "get_hist" -> 2
      [] p = "header"   -> 3
      [] p = "chart"    -> 4
      [] p = "metrics"  -> 5
      [] p = "summary"  -> 6
      [] p = "news"     -> 7
      [] p = "footer"   -> 8

Running == {"refresh", "get_info", "get_hist", "header", "chart", "metrics",
            "summary", "news", "footer"}

\* C20: a cycle that has reached the refresh check ends: either the check
\* asks for the reload, once, or the loop goes through the ticker list, every
\* step forward, no step taken again and no earlier ticker taken again, and
\* reaches the footer with one outcome for each entry of the list, after which
\* the script is over.
C20_CycleTerminates ==
    /\ (pc = "refresh") ~> (pc \in {"reload", "idle"})
    /\ (pc \in Running) ~> (pc \notin Running)
    /\ [][(pc \in Running /\ pc' \in Running) =>
              /\ i' \in {i, i + 1}
              /\ i' * 10 + Stage(pc') > i * 10 + Stage(pc)
              /\ tickers' = tickers
              /\ Len(done') = i' - 1]_vars
    /\ [][(pc \in Running /\ pc' \notin Running) =>
              \/ pc = "refresh" /\ pc' = "reload" /\ done = <<>>
              \/ pc = "footer" /\ pc' = "idle"]_vars
    /\ [](pc = "footer" =>
             /\ i = Len(tickers) + 1
             /\ Len(done) = Len(tickers)
             /\ \A k \in 1..Len(done) : done[k].ticker = tickers[k])

\* a cycle in which both tickers failed has reached the footer
C20_Witness ==
    /\ pc = "footer"
    /\ Len(tickers) = 2
    /\ Len(done) = 2
    /\ done[1].how = "error"
    /\ done[2].how = "error"

====
